---- MODULE Spec2Model ----
(***************************************************************************)
(* Steam voice payload parser (SteamVoiceData, Packet, crc32b) and the     *)
(* stateful Opus-PLC decoder driver (SteamVoiceDecoder) of src/src/lib.rs. *)
(*                                                                         *)
(* Bytes are integers 0..255 and a u16 is an integer 0..65535.  A u32 or   *)
(* u64 is the sequence of its 16-bit words, least significant first, so    *)
(* that it keeps its width.  Option<T> is a sequence of length 0 or 1.     *)
(* The Opus decoder is an external dependency: its calls are logged in     *)
(* `calls` and its results are chosen nondeterministically among the       *)
(* results its interface allows.                                           *)
(***************************************************************************)
EXTENDS Integers, Sequences, FiniteSets, TLC

\* ------------------------------------------------------------ bounds
\* largest output buffer length a caller passes to decode
MaxOut == 3
\* largest sample count one Opus decoder call returns
MaxSamples == 2
\* largest number of sub-packets in a generated payload
MaxPackets == 2
\* largest number of well-formed items (frames, sentinels) in a generated
\* Opus sub-stream
MaxFrames == 2

\* ------------------------------------------------------------ integers
U16Max == 65535

Min(a, b) == IF a < b THEN a ELSE b

\* variant: the bytes are taken most significant first
U16FromLe_BigEndian(bytes) == bytes[2] + 256 * bytes[1]

\* u16::from_le_bytes
U16FromLe(bytes) == bytes[1] + 256 * bytes[2]

\* u16::to_le_bytes, used to build payloads
U16ToLe(n) == <<n % 256, n \div 256>>

\* u32::from_le_bytes / u64::from_le_bytes : the 16-bit words of the value
FromLeBytes(bytes) ==
    [k \in 1..(Len(bytes) \div 2) |-> U16FromLe(<<bytes[2 * k - 1], bytes[2 * k]>>)]

\* u32::to_le_bytes, used to build payloads
U32ToLe(v) == U16ToLe(v[1]) \o U16ToLe(v[2])

\* bitwise exclusive or of two values below 2^n
XorBits(a, b, n) ==
    LET bits[x \in 0..(2 ^ n - 1), y \in 0..(2 ^ n - 1)] ==
            IF x = 0 THEN y
            ELSE IF y = 0 THEN x
            ELSE ((x + y) % 2) + 2 * bits[x \div 2, y \div 2]
    IN bits[a, b]

\* ^ , >> 1 and ! on a u32
Xor32(a, b) == <<XorBits(a[1], b[1], 16), XorBits(a[2], b[2], 16)>>
Shr1(a) == <<(a[1] \div 2) + 32768 * (a[2] % 2), a[2] \div 2>>
Not32(a) == <<U16Max - a[1], U16Max - a[2]>>

\* 0xFFFFFFFF
U32Ones == <<U16Max, U16Max>>
\* 0xEDB88320
CrcPoly == FromLeBytes(<<32, 131, 184, 237>>)

\* the values of a u32
U32 == (0..U16Max) \X (0..U16Max)

\* the inner `for _ in 0..8` of crc32b, with n iterations to go:
\* mask = -(crc & 1); crc = (crc >> 1) ^ (0xEDB88320 & mask)
CrcBits(crc0) ==
    LET loop[n \in 0..8, crc \in U32] ==
            IF n = 0 THEN crc
            ELSE loop[n - 1, IF crc[1] % 2 = 1 THEN Xor32(Shr1(crc), CrcPoly)
                             ELSE Shr1(crc)]
    IN loop[8, crc0]

\* crc32b: `for &byte in data`, with the first i bytes done: crc ^= byte as u32
\* and the eight shifts; then !crc
crc32b(buf) ==
    LET loop[i \in 0..Len(buf), crc \in U32] ==
            IF i = Len(buf) THEN Not32(crc)
            ELSE loop[i + 1, CrcBits(<<XorBits(crc[1], buf[i + 1], 16), crc[2]>>)]
    IN loop[0, U32Ones]

\* ------------------------------------------------------------ results
OkKind == "Ok"
ErrInsufficientData == [kind |-> "InsufficientData"]
ErrInsufficientOutputBuffer == [kind |-> "InsufficientOutputBuffer"]
ErrNoSampleRate == [kind |-> "NoSampleRate"]
ErrOpus == [kind |-> "Opus"]
ErrUnknownPacketType(v) == [kind |-> "UnknownPacketType", ty |-> v]
\* variant: the two fields of the error take each other's value
ErrCrcMismatch_Swapped(e, a) == [kind |-> "CrcMismatch", expected |-> a, actual |-> e]

ErrCrcMismatch(e, a) == [kind |-> "CrcMismatch", expected |-> e, actual |-> a]
\* a Rust panic: the call does not return a value
Panicked == [kind |-> "Panic"]
NoResult == [kind |-> "None"]

\* ------------------------------------------------------------ parser
Drop(s, n) == SubSeq(s, n + 1, Len(s))
Take(s, n) == SubSeq(s, 1, n)

read_bytes(N, buf) ==
    IF Len(buf) < N THEN ErrInsufficientData
    ELSE [kind |-> OkKind, bytes |-> Take(buf, N), rest |-> Drop(buf, N)]

\* variant: the slice handed in is returned as the rest
read_u16_KeepsRest(buf) ==
    LET r == read_bytes(2, buf)
    IN IF r.kind # OkKind THEN r
       ELSE [kind |-> OkKind, value |-> U16FromLe(r.bytes), rest |-> buf]

\* read_u16
read_u16(buf) ==
    LET r == read_bytes(2, buf)
    IN IF r.kind # OkKind THEN r
       ELSE [kind |-> OkKind, value |-> U16FromLe(r.bytes), rest |-> r.rest]

PacketTypeTryFrom(value) ==
    CASE value = 0 -> [kind |-> OkKind, ty |-> "Silence"]
      [] value = 6 -> [kind |-> OkKind, ty |-> "OpusPlc"]
      [] value = 11 -> [kind |-> OkKind, ty |-> "SampleRate"]
      [] OTHER -> ErrUnknownPacketType(value)

Packet(ty, next, bytes) == [ty |-> ty, next |-> next, data |-> bytes]

\* variant: the length field is read before the tag is looked at
PacketRead_LengthFirst(buf) ==
    IF Len(buf) = 0 THEN ErrInsufficientData
    ELSE LET n == read_u16(Drop(buf, 1))
         IN IF n.kind # OkKind THEN n
            ELSE LET ty == PacketTypeTryFrom(buf[1])
                 IN IF ty.kind # OkKind THEN ty
                    ELSE IF ty.ty = "OpusPlc"
                         THEN IF Len(n.rest) < n.value THEN ErrInsufficientData
                              ELSE [kind |-> OkKind,
                                    packet |-> Packet("OpusPlc", n.value, Take(n.rest, n.value)),
                                    rest |-> Drop(n.rest, n.value)]
                         ELSE [kind |-> OkKind,
                               packet |-> Packet(ty.ty, n.value, <<>>),
                               rest |-> n.rest]

\* Packet::read
PacketRead(buf) ==
    IF Len(buf) = 0 THEN ErrInsufficientData
    ELSE LET ty == PacketTypeTryFrom(buf[1])
         IN IF ty.kind # OkKind THEN ty
            ELSE LET n == read_u16(Drop(buf, 1))
                 IN IF n.kind # OkKind THEN n
                    ELSE IF ty.ty = "OpusPlc"
                         THEN IF Len(n.rest) < n.value THEN ErrInsufficientData
                              ELSE [kind |-> OkKind,
                                    packet |-> Packet("OpusPlc", n.value, Take(n.rest, n.value)),
                                    rest |-> Drop(n.rest, n.value)]
                         ELSE [kind |-> OkKind,
                               packet |-> Packet(ty.ty, n.value, <<>>),
                               rest |-> n.rest]

\* SteamVoiceData::new.  `data.len() - 4` underflows for a buffer shorter than
\* 4 bytes: the subtraction panics in a build with overflow checks, and without
\* them split_at panics on the wrapped index.
SteamVoiceDataNew(buf) ==
    IF Len(buf) < 4 THEN Panicked
    ELSE LET body == Take(buf, Len(buf) - 4)
             crc_data == Drop(buf, Len(buf) - 4)
             expected_crc == FromLeBytes(crc_data)
             calculated_crc == crc32b(body)
         IN IF expected_crc # calculated_crc
            THEN ErrCrcMismatch(expected_crc, calculated_crc)
            ELSE LET r == read_bytes(8, body)
                 IN IF r.kind # OkKind THEN r
                    ELSE [kind |-> OkKind,
                          steam_id |-> FromLeBytes(r.bytes),
                          packet_data |-> r.rest]

\* SteamPacketIterator::next
IteratorNext(buf) ==
    IF Len(buf) = 0 THEN [kind |-> "End"]
    ELSE PacketRead(buf)

\* variant: an error item skips the byte it failed on
IteratorRest_SkipsOnError(buf) ==
    IF IteratorNext(buf).kind = OkKind THEN IteratorNext(buf).rest
    ELSE IF IteratorNext(buf).kind = "End" THEN buf
    ELSE Drop(buf, 1)

\* SteamPacketIterator::next: self.data after the call (`self.data = rest` on
\* Ok, untouched on an error and at the end)
IteratorRest(buf) ==
    IF IteratorNext(buf).kind = OkKind THEN IteratorNext(buf).rest ELSE buf

\* ------------------------------------------------------------ inputs
\* Serialized sub-packets and Opus frames, from which the payloads handed to
\* SteamVoiceData::new are built.
SilenceBytes(n) == <<0>> \o U16ToLe(n)
SampleRateBytes(r) == <<11>> \o U16ToLe(r)
OpusPlcBytes(bytes) == <<6>> \o U16ToLe(Len(bytes)) \o bytes
FrameBytes(len, s, bytes) == U16ToLe(len) \o U16ToLe(s) \o bytes
SentinelBytes == U16ToLe(U16Max)

\* all concatenations of at most n members of S
Concats(S, n) ==
    LET upto[k \in 0..n] ==
            IF k = 0 THEN {<<>>}
            ELSE upto[k - 1] \cup {p \o c : p \in upto[k - 1], c \in S}
    IN upto[n]

SilenceCounts == {2}
\* 0 and 1 are rates the Opus library rejects
SampleRates == {0, 1, 24000, 48000}
SeqNums == {0, 2}

\* well-formed items of an Opus sub-stream: the reset sentinel and frames of
\* one data byte
FrameItems == {SentinelBytes} \cup {FrameBytes(1, s, <<9>>) : s \in SeqNums}
\* malformed sub-streams: one stray byte, a frame header cut after its length
\* field, a frame that declares more data than is left, a frame followed by
\* two stray bytes
BadStreams ==
    {<<7>>, <<1, 0, 0>>, FrameBytes(2, 2, <<9>>), FrameBytes(1, 0, <<9>>) \o <<7, 7>>}
\* a frame, the reset marker and one more frame (the loop reads a header only
\* while more than 2 bytes are left)
ResetStreams ==
    {FrameBytes(1, s, <<9>>) \o SentinelBytes \o FrameBytes(1, 0, <<9>>) : s \in SeqNums}
OpusStreams == Concats(FrameItems, MaxFrames) \cup BadStreams \cup ResetStreams

\* malformed sub-packets: an unknown tag, a length field cut short, an OpusPlc
\* that declares more bytes than follow, an unknown tag with a Silence after
\* it, a known tag with nothing after it
BadPackets == {<<5>>, <<11, 1>>, <<6, 9, 0, 1>>, <<5, 0, 2, 0>>, <<0>>}

\* the sub-packets payloads are freely combined from: Silence, SampleRate, an
\* OpusPlc without frames and an OpusPlc of one frame
PacketBytes ==
    {SilenceBytes(n) : n \in SilenceCounts}
    \cup {SampleRateBytes(r) : r \in SampleRates}
    \cup {OpusPlcBytes(<<>>), OpusPlcBytes(FrameBytes(1, 0, <<9>>))}

\* what precedes and what follows the OpusPlc of a longer sub-stream
Before == {<<>>, SilenceBytes(2), SampleRateBytes(24000)}
After == {<<>>, SilenceBytes(2)}

\* the sub-packet sections of the payloads
Interiors ==
    Concats(PacketBytes, MaxPackets)
    \cup {b \o OpusPlcBytes(o) \o a : b \in Before, o \in OpusStreams, a \in After}
    \cup {b \o p : b \in Before, p \in BadPackets}

SteamId1 == <<1, 2, 3, 4, 5, 6, 7, 8>>
SteamId2 == <<255, 0, 0, 0, 0, 0, 0, 128>>

\* sender id + sub-packets + CRC-32 of both
Payload(sid, interior) == sid \o interior \o U32ToLe(crc32b(sid \o interior))
\* the same with the CRC field zeroed
ZeroCrc(sid, interior) == sid \o interior \o <<0, 0, 0, 0>>

ShortBuffers ==
    {<<>>, <<0, 0, 0>>, <<0, 0, 0, 0>>, <<1, 0, 0, 0>>,
     <<1, 2, 3, 4, 5, 6, 7>> \o U32ToLe(crc32b(<<1, 2, 3, 4, 5, 6, 7>>)),
     <<1, 2, 3, 4, 5, 6, 7, 0, 0, 0, 0>>}

\* payloads whose first frame carries the last sequence number, 65535, alone
\* and followed by a frame numbered 0
WrapBuffers ==
    {Payload(SteamId1, OpusPlcBytes(o)) :
        o \in {FrameBytes(1, U16Max, <<9>>),
               FrameBytes(1, U16Max, <<9>>) \o FrameBytes(1, 0, <<9>>)}}

Buffers ==
    {Payload(SteamId1, i) : i \in Interiors}
    \cup WrapBuffers
    \cup {Payload(SteamId2, <<>>), ZeroCrc(SteamId2, <<>>),
          SteamId2 \o U32ToLe(crc32b(SteamId1))}
    \cup {ZeroCrc(SteamId1, i) : i \in Concats(PacketBytes, 1)}
    \cup ShortBuffers

\* ------------------------------------------------------------ Opus library
\* The rates opus_decoder_create accepts; every other rate is an error.
OpusRates == {8000, 12000, 16000, 24000, 48000}

\* Decoder::new(rate, Channels::Mono): Ok for a rate the library accepts, Err
\* for any other
DecoderNewResults(rate) == {rate \in OpusRates}

\* Decoder::reset_state(): Ok or Err
ResetStateResults == {TRUE, FALSE}

\* Decoder::decode(input, output, false): Err, or Ok(count) with a count the
\* output slice of length avail can hold
DecodeResults(avail) ==
    {[ok |-> FALSE, count |-> 0]}
    \cup {[ok |-> TRUE, count |-> c] : c \in 0..Min(avail, MaxSamples)}

Call(op, rate, bytes, ok) == [op |-> op, rate |-> rate, input |-> bytes, ok |-> ok]

\* ------------------------------------------------------------ state
VARIABLES
    decoder,      \* SteamVoiceDecoder.decoder: <<>> or <<[rate]>>
    sample_rate,  \* SteamVoiceDecoder.sample_rate
    seq,          \* SteamVoiceDecoder.seq
    pc,           \* where the caller / the decode call stands
    input,        \* the buffer handed to SteamVoiceData::new
    voice,        \* the result of SteamVoiceData::new
    out_len,      \* output_buffer.len() of the running decode call
    data,         \* SteamPacketIterator.data
    total,        \* decode's `total`
    opus_data,    \* decode_opus's `data`
    opus_total,   \* decode_opus's `total`
    frame,        \* decode_opus's `len` and `seq` of the frame being processed, and
                  \* history: self.seq and Len(calls) when its header was read
    lost,         \* iterations left of the PLC loop `for _ in 0..lost`
    result,       \* what the decode call returned
    calls,        \* the calls made to the Opus library during this decode call
    rate_seen,    \* history: a SampleRate sub-packet has been processed
    yielded,      \* the sub-packets a caller has pulled from packets() so far
    pulls         \* parity of the number of next() calls made on the iterator

driver == <<decoder, sample_rate, seq>>
locals == <<out_len, data, total, opus_data, opus_total, frame, lost>>
iter == <<yielded, pulls>>
vars == <<decoder, sample_rate, seq, pc, input, voice, out_len, data, total,
          opus_data, opus_total, frame, lost, result, calls, rate_seen,
          yielded, pulls>>

\* no frame is being processed
NoFrame == [len |-> 0, seq |-> 0, expected |-> 0, base |-> 0]

\* SteamVoiceDecoder::new() == Default: no decoder, sample_rate 0, seq 0
Init ==
    /\ decoder = <<>>
    /\ sample_rate = 0
    /\ seq = 0
    /\ pc = "idle"
    /\ input = <<>>
    /\ voice = NoResult
    /\ out_len = 0
    /\ data = <<>>
    /\ total = 0
    /\ opus_data = <<>>
    /\ opus_total = 0
    /\ frame = NoFrame
    /\ lost = 0
    /\ result = NoResult
    /\ calls = <<>>
    /\ rate_seen = FALSE
    /\ yielded = <<>>
    /\ pulls = 0

\* SteamVoiceData::new applied to every buffer of the model
NewResults == {[buf |-> b, res |-> SteamVoiceDataNew(b)] : b \in Buffers}

\* the caller parses a buffer: SteamVoiceData::new(&data).  A payload whose
\* first frame is numbered 65535 arrives when that number is the expected one
\* (the frames before it were received in order)
New ==
    /\ pc = "idle"
    /\ \E p \in NewResults :
        /\ p.buf \in WrapBuffers => seq = U16Max
        /\ input' = p.buf
        /\ voice' = p.res
    /\ pc' = IF voice'.kind = "Panic" THEN "panicked" ELSE "parsed"
    /\ UNCHANGED <<iter, driver, locals, result, calls, rate_seen>>

\* the caller hands the parsed payload and an output buffer to decode:
\* `let mut total = 0; for packet in voice_data.packets()`
Decode ==
    /\ pc = "parsed"
    /\ voice.kind = OkKind
    /\ \E n \in 0..MaxOut : out_len' = n
    /\ data' = voice.packet_data
    /\ total' = 0
    /\ calls' = <<>>
    /\ pc' = "packets"
    /\ UNCHANGED <<iter, driver, input, voice, opus_data, opus_total, frame, lost,
                   result, rate_seen>>

\* a call ends with `r` (a value returned, or a panic that unwinds it)
Return(r) ==
    /\ result' = r
    /\ pc' = IF r.kind = "Panic" THEN "panicked" ELSE "returned"

DecodeOk(n) == [kind |-> OkKind, total |-> n]

\* ------------------------------------------------------------ decode
\* variant: a decoder is constructed only while the driver has no rate yet
NeedsNewDecoder_WhenUnset(cur, rate) == cur = 0

\* variant: a decoder is constructed for every SampleRate sub-packet
NeedsNewDecoder_Always(cur, rate) == TRUE

\* `if self.sample_rate != rate`
NeedsNewDecoder(cur, rate) == cur # rate

\* variant: sample_rate is assigned before the construction is known to succeed
ApplySampleRate_RateFirst(dec, sr, rate, ok) ==
    IF ok THEN <<(<<[rate |-> rate]>>), rate>> ELSE <<dec, rate>>

\* `self.decoder = Some(Decoder::new(..)?); self.sample_rate = rate;`
\* the decoder and sample_rate after the construction returned ok / not ok
ApplySampleRate(dec, sr, rate, ok) ==
    IF ok THEN <<(<<[rate |-> rate]>>), rate>> ELSE <<dec, sr>>

\* variant: the missing decoder is not detected
NoDecoder_Never(dec) == FALSE

\* `let Some(decoder) = self.decoder.as_mut() else { return Err(NoSampleRate) }`
NoDecoder(dec) == dec = <<>>

\* `if total >= output_buffer.len()`
OutputFull(t, len) == t >= len

\* `&mut output_buffer[total..]` panics when total > output_buffer.len()
SliceInRange(t, len) == t <= len

\* `for packet in voice_data.packets()` when the iterator is exhausted: Ok(total)
PacketsEnd ==
    /\ pc = "packets"
    /\ IteratorNext(data).kind = "End"
    /\ Return(DecodeOk(total))
    /\ UNCHANGED <<iter, driver, input, voice, locals, calls, rate_seen>>

\* `let packet = packet?;` when the iterator yields an error
PacketErr ==
    /\ pc = "packets"
    /\ IteratorNext(data).kind \notin {"End", OkKind}
    /\ Return(IteratorNext(data))
    /\ UNCHANGED <<iter, driver, input, voice, locals, calls, rate_seen>>

\* Packet::SampleRate(rate)
PacketSampleRate ==
    /\ pc = "packets"
    /\ IteratorNext(data).kind = OkKind
    /\ LET next == IteratorNext(data)
           rate == next.packet.next
       IN /\ next.packet.ty = "SampleRate"
          /\ data' = next.rest
          /\ rate_seen' = TRUE
          /\ IF NeedsNewDecoder(sample_rate, rate)
             THEN \E ok \in DecoderNewResults(rate) :
                    /\ calls' = Append(calls, Call("new", rate, <<>>, ok))
                    /\ decoder' = ApplySampleRate(decoder, sample_rate, rate, ok)[1]
                    /\ sample_rate' = ApplySampleRate(decoder, sample_rate, rate, ok)[2]
                    /\ IF ok THEN UNCHANGED <<pc, result>> ELSE Return(ErrOpus)
             ELSE UNCHANGED <<decoder, sample_rate, pc, result, calls>>
    /\ UNCHANGED <<iter, seq, input, voice, out_len, total, opus_data, opus_total,
                   frame, lost>>

\* Packet::Silence(silence)
PacketSilence ==
    /\ pc = "packets"
    /\ IteratorNext(data).kind = OkKind
    /\ LET next == IteratorNext(data)
       IN /\ next.packet.ty = "Silence"
          /\ data' = next.rest
          /\ total' = total + next.packet.next
    /\ UNCHANGED <<iter, driver, pc, input, voice, out_len, opus_data, opus_total,
                   frame, lost, result, calls, rate_seen>>

\* Packet::OpusPlc(opus): the slice of the output buffer is taken, then
\* decode_opus is entered: `let Some(decoder) = self.decoder.as_mut() else`
PacketOpusPlc ==
    /\ pc = "packets"
    /\ IteratorNext(data).kind = OkKind
    /\ LET next == IteratorNext(data)
       IN /\ next.packet.ty = "OpusPlc"
          /\ data' = next.rest
          /\ IF ~SliceInRange(total, out_len)
             THEN Return(Panicked) /\ UNCHANGED <<opus_data>>
             ELSE IF NoDecoder(decoder)
             THEN Return(ErrNoSampleRate) /\ UNCHANGED <<opus_data>>
             ELSE /\ opus_data' = next.packet.data
                  /\ pc' = "frames"
                  /\ UNCHANGED result
    /\ opus_total' = 0
    /\ UNCHANGED <<iter, driver, input, voice, out_len, total, frame, lost, calls,
                   rate_seen>>

\* ------------------------------------------------------------ decode_opus
\* length of the slice decode_opus was given: output_buffer[total..]
avail == out_len - total

\* variant: the loop runs while exactly 2 bytes are left too
LoopRuns_TwoLeft(d) == Len(d) >= 2

\* `while data.len() > 2`
LoopRuns(d) == Len(d) > 2

\* variant: no frame length is taken as the reset marker
IsSentinel_Never(len) == FALSE

\* `if len == u16::MAX`
IsSentinel(len) == len = U16Max

\* variant: a sequence number behind the expected one is not detected
SeqBehind_Never(s, expected) == FALSE

\* `if seq < self.seq`
SeqBehind(s, expected) == s < expected

\* variant: no frame is taken as lost
LostFrames_None(s, expected) == 0

\* variant: the gap is counted one too long
LostFrames_OneMore(s, expected) == s - expected + 1

\* `let lost = seq - self.seq`
LostFrames(s, expected) == s - expected

\* `self.seq = seq + 1`: at 65535 the addition panics in a build with overflow
\* checks and wraps to 0 in one without
SeqIncr(s) ==
    IF s = U16Max
    THEN {[panic |-> TRUE, value |-> 0], [panic |-> FALSE, value |-> 0]}
    ELSE {[panic |-> FALSE, value |-> s + 1]}

\* the frame loop ends: decode_opus returns Ok(total) and decode adds it:
\* `total += count; if total >= output_buffer.len()`
OpusReturn ==
    /\ pc = "frames"
    /\ ~LoopRuns(opus_data)
    /\ total' = total + opus_total
    /\ opus_total' = 0
    /\ opus_data' = <<>>
    /\ IF OutputFull(total', out_len)
       THEN Return(ErrInsufficientOutputBuffer)
       ELSE pc' = "packets" /\ UNCHANGED result
    /\ UNCHANGED <<iter, driver, input, voice, out_len, data, frame, lost, calls,
                   rate_seen>>

\* a frame header with len == 0xFFFF: reset_state, seq := 0, continue
FrameSentinel ==
    /\ pc = "frames"
    /\ LoopRuns(opus_data)
    /\ LET len == read_u16(opus_data)
       IN /\ IsSentinel(len.value)
          /\ opus_data' = len.rest
          /\ \E ok \in ResetStateResults :
               /\ calls' = Append(calls, Call("reset_state", 0, <<>>, ok))
               /\ IF ok
                  THEN seq' = 0 /\ UNCHANGED <<pc, result>>
                  ELSE Return(ErrOpus) /\ UNCHANGED seq
    /\ UNCHANGED <<iter, decoder, sample_rate, input, voice, out_len, data, total,
                   opus_total, frame, lost, rate_seen>>

\* a frame header with len and seq: reset_state when seq < self.seq, else the
\* number of lost frames
FrameHeader ==
    /\ pc = "frames"
    /\ LoopRuns(opus_data)
    /\ LET len == read_u16(opus_data)
           sq == read_u16(len.rest)
       IN /\ ~IsSentinel(len.value)
          /\ IF sq.kind # OkKind
             THEN /\ Return(sq)
                  /\ opus_data' = len.rest
                  /\ UNCHANGED <<frame, lost, calls>>
             ELSE /\ opus_data' = sq.rest
                  /\ frame' = [len |-> len.value, seq |-> sq.value,
                                expected |-> seq, base |-> Len(calls)]
                  /\ IF SeqBehind(sq.value, seq)
                     THEN \E ok \in ResetStateResults :
                            /\ calls' = Append(calls, Call("reset_state", 0, <<>>, ok))
                            /\ lost' = 0
                            /\ IF ok
                               THEN pc' = "body" /\ UNCHANGED result
                               ELSE Return(ErrOpus)
                     ELSE /\ lost' = LostFrames(sq.value, seq)
                          /\ pc' = IF lost' = 0 THEN "body" ELSE "plc"
                          /\ UNCHANGED <<result, calls>>
    /\ UNCHANGED <<iter, driver, input, voice, out_len, data, total, opus_total,
                   rate_seen>>

\* one iteration of `for _ in 0..lost`: decoder.decode(&[], &mut output_buffer[total..], false)
PlcStep ==
    /\ pc = "plc"
    /\ lost > 0
    /\ IF ~SliceInRange(opus_total, avail)
       THEN Return(Panicked) /\ UNCHANGED <<opus_total, lost, calls>>
       ELSE \E r \in DecodeResults(avail - opus_total) :
              /\ calls' = Append(calls, Call("decode", 0, <<>>, r.ok))
              /\ IF ~r.ok
                 THEN Return(ErrOpus) /\ UNCHANGED <<opus_total, lost>>
                 ELSE /\ opus_total' = opus_total + r.count
                      /\ IF OutputFull(opus_total', avail)
                         THEN Return(ErrInsufficientOutputBuffer) /\ UNCHANGED lost
                         ELSE /\ lost' = lost - 1
                              /\ pc' = IF lost' = 0 THEN "body" ELSE "plc"
                              /\ UNCHANGED result
    /\ UNCHANGED <<iter, driver, input, voice, out_len, data, total, opus_data,
                   frame, rate_seen>>

\* the rest of the frame: self.seq = seq + 1, the length check, the decode of
\* data[0..len]
FrameBody ==
    /\ pc = "body"
    /\ \E inc \in SeqIncr(frame.seq) :
         IF inc.panic
         THEN Return(Panicked) /\ UNCHANGED <<seq, opus_data, opus_total, calls>>
         ELSE /\ seq' = inc.value
              /\ IF Len(opus_data) < frame.len
                 THEN /\ Return(ErrInsufficientData)
                      /\ UNCHANGED <<opus_data, opus_total, calls>>
                 ELSE IF ~SliceInRange(opus_total, avail)
                 THEN /\ Return(Panicked)
                      /\ UNCHANGED <<opus_data, opus_total, calls>>
                 ELSE \E r \in DecodeResults(avail - opus_total) :
                        /\ calls' = Append(calls,
                                           Call("decode", 0, Take(opus_data, frame.len), r.ok))
                        /\ IF ~r.ok
                           THEN Return(ErrOpus) /\ UNCHANGED <<opus_data, opus_total>>
                           ELSE /\ opus_data' = Drop(opus_data, frame.len)
                                /\ opus_total' = opus_total + r.count
                                /\ IF OutputFull(opus_total', avail)
                                   THEN Return(ErrInsufficientOutputBuffer)
                                   ELSE pc' = "frames" /\ UNCHANGED result
    /\ UNCHANGED <<iter, decoder, sample_rate, input, voice, out_len, data, total,
                   frame, lost, rate_seen>>

\* ------------------------------------------------------------ caller
\* the caller takes the result of the call (a rejected buffer, or what decode
\* returned) and goes on to its next message; the driver is kept
Finish ==
    /\ \/ pc = "returned"
       \/ pc = "parsed" /\ voice.kind # OkKind
    /\ pc' = "idle"
    /\ input' = <<>>
    /\ voice' = NoResult
    /\ out_len' = 0
    /\ data' = <<>>
    /\ total' = 0
    /\ opus_data' = <<>>
    /\ opus_total' = 0
    /\ frame' = NoFrame
    /\ lost' = 0
    /\ result' = NoResult
    /\ calls' = <<>>
    /\ UNCHANGED <<iter, driver, rate_seen>>

\* ------------------------------------------------------------ packets()
\* a caller takes the iterator of a parsed payload: voice_data.packets()
Packets ==
    /\ pc = "parsed"
    /\ voice.kind = OkKind
    /\ data' = voice.packet_data
    /\ yielded' = <<>>
    /\ pulls' = 0
    /\ pc' = "iter"
    /\ UNCHANGED <<driver, input, voice, out_len, total, opus_data, opus_total,
                   frame, lost, result, calls, rate_seen>>

\* the caller pulls one item: SteamPacketIterator::next.  `result` is the item
Pull ==
    /\ pc = "iter"
    /\ result' = IteratorNext(data)
    /\ data' = IteratorRest(data)
    /\ yielded' = IF result'.kind = OkKind THEN Append(yielded, result'.packet)
                  ELSE yielded
    /\ pulls' = 1 - pulls
    /\ pc' = IF result'.kind = "End" THEN "ended" ELSE "iter"
    /\ UNCHANGED <<driver, input, voice, out_len, total, opus_data, opus_total,
                   frame, lost, calls, rate_seen>>

\* the caller is done with an iterator that has ended, or with a rejected
\* buffer, and goes on to its next message
IterFinish ==
    /\ \/ pc = "ended"
       \/ pc = "parsed" /\ voice.kind # OkKind
    /\ pc' = "idle"
    /\ input' = <<>>
    /\ voice' = NoResult
    /\ data' = <<>>
    /\ result' = NoResult
    /\ yielded' = <<>>
    /\ pulls' = 0
    /\ UNCHANGED <<driver, out_len, total, opus_data, opus_total, frame, lost,
                   calls, rate_seen>>

Next ==
    \/ New
    \/ Decode
    \/ PacketsEnd
    \/ PacketErr
    \/ PacketSampleRate
    \/ PacketSilence
    \/ PacketOpusPlc
    \/ OpusReturn
    \/ FrameSentinel
    \/ FrameHeader
    \/ PlcStep
    \/ FrameBody
    \/ Finish

Spec == Init /\ [][Next]_vars

\* the steps of a running decode call
DecodeStep ==
    \/ PacketsEnd
    \/ PacketErr
    \/ PacketSampleRate
    \/ PacketSilence
    \/ PacketOpusPlc
    \/ OpusReturn
    \/ FrameSentinel
    \/ FrameHeader
    \/ PlcStep
    \/ FrameBody

\* a decode call that has been entered keeps running: its own code and the
\* Opus calls it makes return
FairSpec == Spec /\ WF_vars(DecodeStep)

\* a driver that has decoded the frames numbered 0 to 65534 in order at
\* 24000 Hz: it holds a decoder and expects 65535
WrapInit ==
    /\ decoder = <<[rate |-> 24000]>>
    /\ sample_rate = 24000
    /\ seq = U16Max
    /\ pc = "idle"
    /\ input = <<>>
    /\ voice = NoResult
    /\ out_len = 0
    /\ data = <<>>
    /\ total = 0
    /\ opus_data = <<>>
    /\ opus_total = 0
    /\ frame = NoFrame
    /\ lost = 0
    /\ result = NoResult
    /\ calls = <<>>
    /\ rate_seen = TRUE
    /\ yielded = <<>>
    /\ pulls = 0

WrapSpec == WrapInit /\ [][Next]_vars

\* a caller that only iterates the sub-packets of the payloads it parses
IterNext ==
    \/ New
    \/ Packets
    \/ Pull
    \/ IterFinish

IterSpec == Init /\ [][IterNext]_vars

\* the same caller, pulling for as long as it holds an iterator
IterFairSpec == IterSpec /\ WF_vars(Pull)

\* ------------------------------------------------------------ properties
\* the output cursor of the running decode call: what decode has counted plus
\* what the running decode_opus has counted
Cursor == total + opus_total

\* a decode call is running
InDecode == pc \in {"packets", "frames", "plc", "body"}

\* the next sub-packet the iterator yields is an OpusPlc
OpusPlcNext ==
    /\ pc = "packets"
    /\ IteratorNext(data).kind = OkKind
    /\ IteratorNext(data).packet.ty = "OpusPlc"

\* C1: whenever decode returns Ok(total), total is at most output_buffer.len()
C1_OkTotalWithinBuffer ==
    (pc = "returned" /\ result.kind = OkKind) => result.total <= out_len

\* C2: a step of a decode call that moves the output cursor to or past
\* output_buffer.len() makes the call return InsufficientOutputBuffer
C2_FullBufferIsError ==
    [][(InDecode /\ Cursor' > Cursor /\ Cursor' >= out_len)
          => result'.kind = "InsufficientOutputBuffer"]_vars

\* C3: the offset at which the output buffer is sliced for decode_opus or for
\* the Opus decoder never exceeds output_buffer.len(), and no call panics
C3_SliceOffsetWithinBuffer ==
    /\ OpusPlcNext => total <= out_len
    /\ pc \in {"frames", "plc", "body"} => Cursor <= out_len
    /\ result.kind # "Panic"

\* C4: SteamVoiceData::new returns InsufficientData for every buffer shorter
\* than 12 bytes, and for no buffer of 12 bytes or more
C4_ShortBufferIsInsufficientData ==
    voice.kind # "None" => (Len(input) < 12 <=> voice.kind = "InsufficientData")

\* the little-endian u32 stored in the last four bytes of a buffer
StoredCrc(buf) == FromLeBytes(Drop(buf, Len(buf) - 4))

\* the CRC-32 of the bytes before the last four, for the buffers of 12 bytes
\* or more
BodyCrcs ==
    {[buf |-> b, crc |-> crc32b(Take(b, Len(b) - 4))] :
        b \in {x \in Buffers : Len(x) >= 12}}
BodyCrc(buf) == (CHOOSE e \in BodyCrcs : e.buf = buf).crc

\* C5: for a buffer of 12 bytes or more, SteamVoiceData::new returns
\* CrcMismatch exactly when the stored trailing u32 differs from the CRC-32 of
\* the bytes before it, with expected = the stored value and actual = the
\* computed one (the CRC-32 of 01..08 is 0x3FCA88C5: that buffer is accepted
\* with it and rejected with a zero CRC field); after the rejection no
\* sub-packet is iterated, no decode runs and the driver state does not change
C5_CrcMismatchExactlyOnBadCrc ==
    /\ [](pc = "parsed" /\ Len(input) >= 12 =>
            /\ voice.kind = "CrcMismatch" <=> StoredCrc(input) # BodyCrc(input)
            /\ voice.kind = "CrcMismatch" =>
                 /\ voice.expected = StoredCrc(input)
                 /\ voice.actual = BodyCrc(input))
    /\ [](input = <<1, 2, 3, 4, 5, 6, 7, 8, 197, 136, 202, 63>> =>
            voice.kind = OkKind)
    /\ [](input = <<1, 2, 3, 4, 5, 6, 7, 8, 0, 0, 0, 0>> =>
            voice = [kind |-> "CrcMismatch", expected |-> <<0, 0>>,
                     actual |-> <<35013, 16330>>])
    /\ [](voice.kind = "CrcMismatch" =>
            pc = "parsed" /\ data = <<>> /\ calls = <<>> /\ result = NoResult)
    /\ [][(voice.kind = "CrcMismatch" \/ voice'.kind = "CrcMismatch") =>
            UNCHANGED driver]_vars

\* a buffer with a wrong CRC field has been rejected while the driver holds a
\* decoder and a sequence number from earlier payloads
C5_Witness ==
    /\ pc = "parsed"
    /\ Len(input) >= 12
    /\ voice.kind = "CrcMismatch"
    /\ voice.expected # <<0, 0>>
    /\ decoder # <<>>
    /\ seq # 0

\* C6 as stated: NoSampleRate is returned only while no SampleRate sub-packet
\* has been processed in the driver's lifetime
C6_NoSampleRateOnlyBeforeAnySampleRate ==
    result.kind = "NoSampleRate" => ~rate_seen

\* C6: decode returns NoSampleRate exactly when decode_opus is entered for an
\* OpusPlc sub-packet while the driver holds no decoder; the driver holds a
\* decoder from the first successful construction on, and only from then
C6_NoSampleRateIffNoDecoder ==
    /\ [](result.kind = "NoSampleRate" => decoder = <<>>)
    /\ [][(result'.kind = "NoSampleRate" /\ result.kind # "NoSampleRate") =>
            (OpusPlcNext /\ decoder = <<>>)]_vars
    /\ [][(OpusPlcNext /\ total <= out_len /\ decoder = <<>>) =>
            result'.kind = "NoSampleRate"]_vars
    /\ [][(OpusPlcNext /\ total <= out_len /\ decoder # <<>>) =>
            (pc' = "frames" /\ result' = result)]_vars
    /\ [][decoder' # decoder =>
            /\ decoder' # <<>>
            /\ calls' = Append(calls, Call("new", decoder'[1].rate, <<>>, TRUE))]_vars

\* NoSampleRate has been returned although SampleRate sub-packets were
\* processed before the OpusPlc (none of them constructed a decoder)
C6_Witness ==
    /\ pc = "returned"
    /\ result.kind = "NoSampleRate"
    /\ rate_seen
    /\ decoder = <<>>

\* the sub-packets the iterator yields from a payload, and whether it yields
\* them all without an error
PacketsOf(bytes) ==
    LET from[k \in 0..Len(bytes)] ==
            LET r == IteratorNext(Drop(bytes, Len(bytes) - k))
            IN IF r.kind = "End" THEN [ok |-> TRUE, packets |-> <<>>]
               ELSE IF r.kind # OkKind THEN [ok |-> FALSE, packets |-> <<>>]
               ELSE [ok |-> from[Len(r.rest)].ok,
                     packets |-> <<r.packet>> \o from[Len(r.rest)].packets]
    IN from[Len(bytes)]

\* the sum of the counts of the Silence sub-packets
SilenceSum(packets) ==
    LET sum[k \in 0..Len(packets)] ==
            IF k = 0 THEN 0
            ELSE sum[k - 1] + (IF packets[k].ty = "Silence" THEN packets[k].next ELSE 0)
    IN sum[Len(packets)]

\* the payload of the call is well formed and holds no OpusPlc sub-packet
NoOpusPlc ==
    /\ voice.kind = OkKind
    /\ PacketsOf(voice.packet_data).ok
    /\ \A i \in 1..Len(PacketsOf(voice.packet_data).packets) :
         PacketsOf(voice.packet_data).packets[i].ty # "OpusPlc"

\* C7 as stated: a payload without OpusPlc sub-packets makes decode return Ok
\* with the sum of the Silence counts, whatever the driver state
C7_NoOpusPlcIsOk ==
    (pc = "returned" /\ NoOpusPlc) =>
        result = DecodeOk(SilenceSum(PacketsOf(voice.packet_data).packets))

\* C7: a payload without OpusPlc sub-packets makes decode return Ok with the
\* sum of the Silence counts unless a SampleRate sub-packet whose rate differs
\* from the driver's sample_rate fails to construct a decoder; decode then
\* returns the Opus error of that construction
C7_NoOpusPlcIsOkUnlessConstructionFails ==
    (pc = "returned" /\ NoOpusPlc) =>
        IF \A i \in 1..Len(calls) : calls[i].ok
        THEN result = DecodeOk(SilenceSum(PacketsOf(voice.packet_data).packets))
        ELSE /\ result = ErrOpus
             /\ calls[Len(calls)].op = "new"
             /\ ~calls[Len(calls)].ok
             /\ calls[Len(calls)].rate \notin OpusRates
             /\ calls[Len(calls)].rate # sample_rate
             /\ \A i \in 1..(Len(calls) - 1) : calls[i].ok

\* a payload of Silence and SampleRate sub-packets has ended with the Opus
\* error of a failed construction, on a driver that holds a decoder
C7_Witness ==
    /\ pc = "returned"
    /\ NoOpusPlc
    /\ result = ErrOpus
    /\ decoder # <<>>
    /\ \E i \in 1..Len(PacketsOf(voice.packet_data).packets) :
         PacketsOf(voice.packet_data).packets[i].ty = "Silence"

\* C8: the driver holds a decoder exactly when sample_rate is not 0, the
\* decoder is the one constructed for sample_rate, and sample_rate changes only
\* in the step whose Decoder::new succeeds, to the rate of that decoder
C8_DecoderIffSampleRate ==
    /\ []((decoder # <<>>) <=> (sample_rate # 0))
    /\ [](decoder # <<>> => decoder = <<[rate |-> sample_rate]>>)
    /\ [][sample_rate' # sample_rate =>
            /\ decoder' = <<[rate |-> sample_rate']>>
            /\ calls' = Append(calls, Call("new", sample_rate', <<>>, TRUE))]_vars

\* a decoder was constructed and a later construction failed: the driver keeps
\* the earlier decoder and its rate
C8_Witness ==
    /\ pc = "returned"
    /\ result = ErrOpus
    /\ Len(calls) = 2
    /\ calls[1].op = "new" /\ calls[1].ok
    /\ calls[2].op = "new" /\ ~calls[2].ok
    /\ decoder = <<[rate |-> calls[1].rate]>>
    /\ sample_rate = calls[1].rate

\* the Opus calls made for the frame being processed, since its header was read
FrameCalls == SubSeq(calls, frame.base + 1, Len(calls))

\* C9: for a frame with sequence number S read while self.seq is E <= S, the
\* PLC loop makes one empty-input decode per lost frame; when the frame's data
\* is decoded exactly S - E of them have been made since the header was read
\* and nothing else, and the step that passes `self.seq = seq + 1` leaves
\* S + 1; self.seq changes in no step outside the frame loop, so E is the value
\* the previous frame left, in this call or an earlier one
C9_GapFilledBeforeDecode ==
    /\ [][(pc = "frames" /\ pc' \in {"plc", "body"}) =>
            /\ frame'.seq = U16FromLe(<<opus_data[3], opus_data[4]>>)
            /\ frame'.expected = seq
            /\ frame'.base = Len(calls)]_vars
    /\ []((pc \in {"plc", "body"} /\ frame.seq >= frame.expected) =>
            /\ Len(FrameCalls) = (frame.seq - frame.expected) - lost
            /\ \A i \in 1..Len(FrameCalls) : FrameCalls[i] = Call("decode", 0, <<>>, TRUE))
    /\ [][(pc = "body" /\ calls' # calls /\ frame.seq >= frame.expected) =>
            /\ Len(FrameCalls) = frame.seq - frame.expected
            /\ \E ok \in BOOLEAN :
                 calls' = Append(calls, Call("decode", 0, Take(opus_data, frame.len), ok))]_vars
    /\ [][(pc = "body" /\ seq' # seq) => seq' = frame.seq + 1]_vars
    /\ [][(pc = "body" /\ pc' = "frames") => seq' = frame.seq + 1]_vars
    /\ [][seq' # seq => pc \in {"frames", "body"}]_vars

\* the first frame of a call carries sequence number 2 while an earlier call
\* left self.seq = 1: one PLC decode, then the decode of the frame's data
C9_Witness ==
    /\ pc = "frames"
    /\ frame.seq = 2
    /\ frame.expected = 1
    /\ frame.base = 0
    /\ calls = <<Call("decode", 0, <<>>, TRUE), Call("decode", 0, <<9>>, TRUE)>>
    /\ seq = 3

\* the frame loop is about to read a frame-length header equal to 0xFFFF
SentinelNext ==
    /\ pc = "frames"
    /\ Len(opus_data) > 2
    /\ opus_data[1] = 255
    /\ opus_data[2] = 255

\* C10: on a frame-length header 0xFFFF the loop makes one reset_state call
\* and no decode call and leaves the output cursor alone; when reset_state
\* returns Ok, self.seq becomes 0, exactly the two header bytes are consumed
\* and the loop continues (an Err of reset_state is returned as the Opus error)
C10_SentinelResets ==
    [][SentinelNext =>
         /\ total' = total
         /\ opus_total' = opus_total
         /\ \E ok \in BOOLEAN :
              /\ calls' = Append(calls, Call("reset_state", 0, <<>>, ok))
              /\ ok => /\ seq' = 0
                       /\ opus_data' = Drop(opus_data, 2)
                       /\ pc' = "frames"
                       /\ result' = result
              /\ ~ok => /\ seq' = seq
                        /\ pc' = "returned"
                        /\ result' = ErrOpus]_vars

\* a 0xFFFF header that follows a decoded frame has been processed: the
\* sequence number is back at 0 and the samples of the frame are still counted
C10_Witness ==
    /\ pc = "frames"
    /\ Len(calls) >= 2
    /\ calls[Len(calls)] = Call("reset_state", 0, <<>>, TRUE)
    /\ calls[Len(calls) - 1].op = "decode"
    /\ calls[Len(calls) - 1].input # <<>>
    /\ seq = 0
    /\ opus_total > 0
    /\ frame.seq > 0

\* the sub-packets whose sequences are serialized: Silence, SampleRate, an
\* OpusPlc without bytes and one with the bytes of a frame
SubPackets ==
    {Packet("Silence", n, <<>>) : n \in SilenceCounts}
    \cup {Packet("SampleRate", r, <<>>) : r \in SampleRates}
    \cup {Packet("OpusPlc", Len(o), o) : o \in {<<>>, FrameBytes(1, 0, <<9>>)}}

\* the sequences of at most MaxPackets of them
PacketSeqs == UNION {[1..k -> SubPackets] : k \in 0..MaxPackets}

\* the serialized form of one sub-packet and of a sequence
Serialize(p) ==
    CASE p.ty = "Silence" -> SilenceBytes(p.next)
      [] p.ty = "SampleRate" -> SampleRateBytes(p.next)
      [] p.ty = "OpusPlc" -> OpusPlcBytes(p.data)
SerializeAll(ps) ==
    LET upto[k \in 0..Len(ps)] ==
            IF k = 0 THEN <<>> ELSE upto[k - 1] \o Serialize(ps[k])
    IN upto[Len(ps)]

\* each sequence with the payload made of it: sender id 01..08, the
\* serialized sub-packets, the CRC-32 of both
RoundTrips ==
    {[packets |-> ps, buf |-> Payload(SteamId1, SerializeAll(ps))] : ps \in PacketSeqs}

\* C11: a payload made of a sender id, the serialized forms of a sequence of
\* sub-packets and the CRC-32 of both is accepted by SteamVoiceData::new with
\* that sender id (0x0807060504030201), and packets() yields exactly those
\* sub-packets, field values and Opus bytes included, in order, and then ends
C11_RoundTrip ==
    \A e \in RoundTrips :
        (input = e.buf /\ pc \in {"parsed", "iter", "ended"}) =>
            /\ voice.kind = OkKind
            /\ voice.steam_id = <<513, 1027, 1541, 2055>>
            /\ pc = "iter" =>
                 /\ result.kind \in {"None", OkKind}
                 /\ Len(yielded) <= Len(e.packets)
                 /\ yielded = SubSeq(e.packets, 1, Len(yielded))
            /\ pc = "ended" => yielded = e.packets

\* the iterator of a payload made of two sub-packets, the second an OpusPlc
\* with bytes, has ended
C11_Witness ==
    /\ pc = "ended"
    /\ \E e \in RoundTrips : e.buf = input /\ Len(e.packets) = 2
    /\ Len(yielded) = 2
    /\ yielded[2].ty = "OpusPlc"
    /\ yielded[2].data = FrameBytes(1, 0, <<9>>)

\* the number of bytes the sub-packet at the front of the interior bytes
\* takes: 3, and for an OpusPlc (tag 6) its little-endian length field more
FrontSize(bytes) ==
    IF bytes[1] = 6 THEN 3 + bytes[2] + 256 * bytes[3] ELSE 3

\* C12: a pull that yields a sub-packet moves the iterator's cursor forward by
\* exactly 3 bytes for Silence and SampleRate and by 3 + next bytes for
\* OpusPlc; a pull that yields an error leaves the cursor where it was; a pull
\* returns end-of-sequence exactly when no interior byte is left
C12_CursorAdvancesBySubPacket ==
    [][pc = "iter" =>
         /\ result'.kind = OkKind =>
              /\ Len(data) >= 3
              /\ FrontSize(data) <= Len(data)
              /\ data' = SubSeq(data, FrontSize(data) + 1, Len(data))
              /\ result'.packet.ty = "OpusPlc" <=> data[1] = 6
         /\ result'.kind # OkKind => data' = data
         /\ result'.kind = "End" <=> data = <<>>]_vars

\* an OpusPlc with bytes has been yielded and interior bytes are left after it
C12_Witness ==
    /\ pc = "iter"
    /\ result.kind = OkKind
    /\ result.packet.ty = "OpusPlc"
    /\ result.packet.next > 0
    /\ data # <<>>
    /\ Len(yielded) = 1

\* the frame loop is about to read the header of a frame (a length other than
\* 0xFFFF and a sequence field)
FrameNext ==
    /\ pc = "frames"
    /\ Len(opus_data) >= 4
    /\ ~(opus_data[1] = 255 /\ opus_data[2] = 255)

\* the sequence field of that header
FrameNextSeq == opus_data[3] + 256 * opus_data[4]

\* C13: for a frame with sequence number S read while self.seq is E > S, the
\* header step makes one reset_state call; no empty-input decode is made for
\* the frame; its data is then decoded once and self.seq becomes S + 1 (an
\* Err of reset_state or of the decode is returned as the Opus error)
C13_BehindResetsWithoutPlc ==
    /\ [][(FrameNext /\ FrameNextSeq < seq) =>
            \E ok \in BOOLEAN :
                /\ calls' = Append(calls, Call("reset_state", 0, <<>>, ok))
                /\ ok => (pc' = "body" /\ lost' = 0 /\ frame'.seq = FrameNextSeq)
                /\ ~ok => (pc' = "returned" /\ result' = ErrOpus)]_vars
    /\ []((pc \in {"plc", "body"} /\ frame.seq < frame.expected) =>
            /\ pc = "body"
            /\ FrameCalls = <<Call("reset_state", 0, <<>>, TRUE)>>)
    /\ [][(pc = "body" /\ frame.seq < frame.expected /\ calls' # calls) =>
            /\ seq' = frame.seq + 1
            /\ \E ok \in BOOLEAN :
                 calls' = Append(calls, Call("decode", 0, Take(opus_data, frame.len), ok))]_vars
    /\ [][(pc = "body" /\ frame.seq < frame.expected /\ pc' = "frames") =>
            /\ seq' = frame.seq + 1
            /\ Len(calls') = frame.base + 2]_vars

\* a frame with sequence number 0 has been decoded while 3 was expected: one
\* reset_state, one decode of its data, and 1 is expected next
C13_Witness ==
    /\ pc = "frames"
    /\ frame.seq = 0
    /\ frame.expected = 3
    /\ seq = 1
    /\ FrameCalls = <<Call("reset_state", 0, <<>>, TRUE), Call("decode", 0, <<9>>, TRUE)>>

\* C14: the step that passes `self.seq = seq + 1` for a frame numbered 65535
\* leaves self.seq = 0 and does not end the call with a panic, and the number
\* of lost frames, seq - self.seq, is never negative
C14_SeqArithmeticWrapSafe ==
    /\ [][(pc = "body" /\ frame.seq = U16Max) =>
            (seq' = 0 /\ pc' # "panicked")]_vars
    /\ [](lost \in 0..U16Max)

\* the next sub-packet of the running decode call is a SampleRate
SampleRateNext ==
    /\ pc = "packets"
    /\ Len(data) >= 3
    /\ data[1] = 11

\* its rate field
SampleRateNextRate == data[2] + 256 * data[3]

\* C15 as stated: processing SampleRate(rate) leaves seq and the output cursor
\* alone; when rate differs from sample_rate a new decoder is constructed and
\* sample_rate becomes rate, and when it is equal the decoder is kept
C15_SampleRateReplacesIffDiffers ==
    [][SampleRateNext =>
         /\ seq' = seq
         /\ total' = total
         /\ SampleRateNextRate # sample_rate =>
              /\ decoder' = <<[rate |-> SampleRateNextRate]>>
              /\ sample_rate' = SampleRateNextRate
         /\ SampleRateNextRate = sample_rate =>
              /\ decoder' = decoder
              /\ sample_rate' = sample_rate
              /\ calls' = calls]_vars

\* C15: processing SampleRate(rate) leaves seq and the output cursor alone;
\* when rate equals sample_rate no Opus call is made and the decoder is kept;
\* when it differs Decoder::new(rate) is called once: on Ok the decoder is
\* replaced and sample_rate becomes rate, on Err decode returns the Opus
\* error and decoder and sample_rate stay as they were
C15_SampleRateReplacesIfConstructed ==
    [][SampleRateNext =>
         /\ seq' = seq
         /\ total' = total
         /\ SampleRateNextRate # sample_rate =>
              \E ok \in BOOLEAN :
                  /\ calls' = Append(calls, Call("new", SampleRateNextRate, <<>>, ok))
                  /\ ok => /\ decoder' = <<[rate |-> SampleRateNextRate]>>
                           /\ sample_rate' = SampleRateNextRate
                           /\ pc' = "packets"
                           /\ result' = result
                  /\ ~ok => /\ decoder' = decoder
                            /\ sample_rate' = sample_rate
                            /\ pc' = "returned"
                            /\ result' = ErrOpus
         /\ SampleRateNextRate = sample_rate =>
              /\ decoder' = decoder
              /\ sample_rate' = sample_rate
              /\ calls' = calls
              /\ pc' = "packets"
              /\ result' = result]_vars

\* a SampleRate with a rate the library rejects has been processed on a
\* driver that expects sequence number 1 at 24000 Hz: the call has ended with
\* the Opus error and the driver is as before
C15_Witness ==
    /\ pc = "returned"
    /\ result = ErrOpus
    /\ calls = <<Call("new", 1, <<>>, FALSE)>>
    /\ decoder = <<[rate |-> 24000]>>
    /\ sample_rate = 24000
    /\ seq = 1

\* the running decode call is about to take a sub-packet from interior bytes
\* that are left
PacketNext == pc = "packets" /\ data # <<>>

\* the call ends with error r in this step, nothing else of the call or the
\* driver changing
AbortsWith(r) ==
    /\ result' = r
    /\ pc' = "returned"
    /\ UNCHANGED <<driver, data, total, calls>>

\* C16: a tag byte other than 0, 6 and 11 ends decode with UnknownPacketType
\* carrying the tag, however few bytes follow it; a known tag followed by
\* fewer than 2 bytes ends it with InsufficientData; so does an OpusPlc whose
\* length field exceeds the bytes left after it, while one whose length is at
\* most the bytes left is taken; a call that has returned processes nothing
\* more
C16_ParseErrorsClassified ==
    /\ [][PacketNext =>
            /\ data[1] \notin {0, 6, 11} =>
                 AbortsWith([kind |-> "UnknownPacketType", ty |-> data[1]])
            /\ (data[1] \in {0, 6, 11} /\ Len(data) < 3) =>
                 AbortsWith([kind |-> "InsufficientData"])
            /\ (data[1] = 6 /\ Len(data) >= 3 /\ FrontSize(data) > Len(data)) =>
                 AbortsWith([kind |-> "InsufficientData"])
            /\ (data[1] \in {0, 6, 11} /\ Len(data) >= 3 /\ FrontSize(data) <= Len(data)) =>
                 data' = SubSeq(data, FrontSize(data) + 1, Len(data))]_vars
    /\ [][pc = "returned" => (pc' = "idle" /\ UNCHANGED driver)]_vars

\* after a Silence, an unknown tag that is the last byte of the payload has
\* ended the call
C16_Witness ==
    /\ pc = "returned"
    /\ result = [kind |-> "UnknownPacketType", ty |-> 5]
    /\ data = <<5>>
    /\ total = 2

\* the error values decode returns
ErrorKinds ==
    {"InsufficientData", "InsufficientOutputBuffer", "UnknownPacketType",
     "NoSampleRate", "Opus"}

\* C17: the step in which decode returns an error ends the call and leaves
\* decoder and sample_rate as they were, and self.seq too unless the step is
\* the one that has just passed `self.seq = seq + 1`; the caller's next step
\* keeps the driver and can start another call.  When a frame declares more
\* data than is left, InsufficientData is returned in the step that sets
\* self.seq to the frame's seq + 1, after the PLC decodes of the gap
C17_ErrorsKeepDriverState ==
    /\ [][(result.kind = "None" /\ result'.kind \in ErrorKinds) =>
            /\ pc' = "returned"
            /\ decoder' = decoder
            /\ sample_rate' = sample_rate
            /\ seq' # seq => (pc = "body" /\ seq' = frame.seq + 1)]_vars
    /\ [][pc = "returned" => (pc' = "idle" /\ UNCHANGED <<driver, rate_seen>>)]_vars
    /\ [][(pc = "body" /\ Len(opus_data) < frame.len /\ frame.seq < U16Max) =>
            /\ result' = [kind |-> "InsufficientData"]
            /\ pc' = "returned"
            /\ seq' = frame.seq + 1
            /\ calls' = calls
            /\ frame.seq >= frame.expected =>
                 /\ Len(FrameCalls) = frame.seq - frame.expected
                 /\ \A i \in 1..Len(FrameCalls) :
                      FrameCalls[i] = Call("decode", 0, <<>>, TRUE)]_vars

\* on a fresh driver a payload of SampleRate(24000) and an OpusPlc whose frame
\* numbered 2 declares 2 data bytes and has 1 has ended with InsufficientData:
\* the decoder is kept, two PLC decodes were made and 3 is expected next
C17_Witness ==
    /\ pc = "returned"
    /\ result = [kind |-> "InsufficientData"]
    /\ frame.len = 2
    /\ frame.seq = 2
    /\ frame.expected = 0
    /\ calls = <<Call("new", 24000, <<>>, TRUE), Call("decode", 0, <<>>, TRUE),
                 Call("decode", 0, <<>>, TRUE)>>
    /\ decoder = <<[rate |-> 24000]>>
    /\ sample_rate = 24000
    /\ seq = 3

\* C18: an iterator that is pulled again and again eventually returns
\* end-of-sequence, also after it has yielded an error
C18_IteratorEnds == (pc = "iter") ~> (pc = "ended")

\* C19: with 0, 1 or 2 bytes of the sub-stream left the frame loop exits:
\* decode_opus makes no Opus call, changes nothing of the driver and returns
\* its count, which decode adds to its cursor (the bytes left play no part in
\* the outcome); with 3 bytes or more left the loop runs; with exactly 3 left
\* of which the first two are not 0xFFFF the call ends with InsufficientData
C19_LoopNeedsThreeBytes ==
    /\ [][(pc = "frames" /\ Len(opus_data) <= 2) =>
            /\ calls' = calls
            /\ UNCHANGED driver
            /\ total' = total + opus_total
            /\ IF total' >= out_len
               THEN pc' = "returned" /\ result' = [kind |-> "InsufficientOutputBuffer"]
               ELSE pc' = "packets" /\ result' = result]_vars
    /\ [][(pc = "frames" /\ Len(opus_data) >= 3) =>
            (pc' # "packets" /\ total' = total)]_vars
    /\ [][(pc = "frames" /\ Len(opus_data) = 3
              /\ ~(opus_data[1] = 255 /\ opus_data[2] = 255)) =>
            /\ result' = [kind |-> "InsufficientData"]
            /\ pc' = "returned"
            /\ calls' = calls
            /\ UNCHANGED driver]_vars

\* a payload of SampleRate(24000) and an OpusPlc whose sub-stream is one frame
\* followed by two stray bytes has been decoded: the call returned Ok
C19_Witness ==
    /\ pc = "returned"
    /\ voice.kind = OkKind
    /\ voice.packet_data =
          SampleRateBytes(24000) \o OpusPlcBytes(FrameBytes(1, 0, <<9>>) \o <<7, 7>>)
    /\ result.kind = OkKind
    /\ result.total > 0
    /\ calls[Len(calls)] = Call("decode", 0, <<9>>, TRUE)

\* C20: every decode call ends (with a value, or unwound by a panic); each
\* step of the sub-packet loop ends the call or consumes at least 3 interior
\* bytes, each step of the frame loop that goes on consumes at least 2 bytes
\* of the sub-stream, each iteration of the PLC loop takes one from a count
\* of at most 65535, and within a frame neither byte string grows
C20_DecodeTerminates ==
    /\ InDecode ~> (pc \in {"returned", "panicked"})
    /\ [][pc = "packets" =>
            \/ pc' \in {"returned", "panicked"}
            \/ Len(data') <= Len(data) - 3]_vars
    /\ [][(pc = "frames" /\ pc' \in {"frames", "plc", "body"}) =>
            /\ Len(opus_data') <= Len(opus_data) - 2
            /\ data' = data]_vars
    /\ [][(pc = "plc" /\ pc' = "plc") =>
            (lost' = lost - 1 /\ opus_data' = opus_data /\ data' = data)]_vars
    /\ [][(pc \in {"plc", "body"} /\ pc' \in {"body", "frames"}) =>
            (Len(opus_data') <= Len(opus_data) /\ data' = data)]_vars
    /\ [](lost \in 0..U16Max)

\* a call that went through the sub-packet loop, the frame loop and the PLC
\* loop has returned: a construction, two PLC decodes, a data decode and more
C20_Witness ==
    /\ pc = "returned"
    /\ result.kind = OkKind
    /\ Len(calls) >= 5
    /\ calls[1].op = "new"
    /\ calls[2] = Call("decode", 0, <<>>, TRUE)
    /\ calls[3] = Call("decode", 0, <<>>, TRUE)
    /\ data = <<>>

====
